---- MODULE Spec2Model ----
(***************************************************************************)
(* Model of pkg/cmd/backup/list.go: the "list" sub-command of the backup   *)
(* command group.  One run of the command is Complete followed by Run      *)
(* (NewListCmd's Run callback); Run is split in its three sequential       *)
(* parts: the query, one step per iteration of the per-object loop, and    *)
(* the rendering of the table.                                             *)
(*                                                                         *)
(* Go strings that are only compared are TLA+ strings.  The label string   *)
(* is a sequence of one-character strings, so that fmt.Sprintf's output    *)
(* can be inspected character by character.  An error value is a sequence  *)
(* of messages; the nil error is the empty sequence.                       *)
(***************************************************************************)
EXTENDS Naturals, Sequences, FiniteSets

\* ------------------------------------------------------------- bounds
\* Longest list of object references a query returns.
MaxInfos == 2

\* ------------------------------------------------------------- universe
Namespaces == {"ns1", "ns2"}
\* Namespace the ambient kubeconfig resolves to.
ConfigNamespaces == {"ns1"}
Names == {"a", "b"}
\* Positional arguments of the command: optional name filters.
ArgLists == {<< >>, <<"a">>}
LabelKeys == {<<"a">>, <<"a", "p", "p">>}
LabelValues == {<<"v", "1">>}

Nil == << >>
Error(msg) == <<msg>>

\* types.BackupJobSourceName, the resource kind asked of the builder.
BackupJobSourceName == "backupjobs"

\* ------------------------------------------------------------- values
\* A value of Go's interface{} as found in an unstructured object: nil, a
\* string, or anything else (a number, a list, ...).
NilV == [kind |-> "nil", v |-> ""]
Str(s) == [kind |-> "string", v |-> s]
OtherV == [kind |-> "other", v |-> ""]

\* obj.Object["status"]: absent or null ("nil"), a string-keyed mapping
\* ("map") or any other shape ("other").  A key the mapping lacks reads as
\* nil, as Go's map index does.
NoStatus ==
    [kind |-> "nil", phase |-> NilV, completionTimestamp |-> NilV,
     startTimestamp |-> NilV]
NotAMapStatus ==
    [kind |-> "other", phase |-> NilV, completionTimestamp |-> NilV,
     startTimestamp |-> NilV]
MapStatuses ==
    [kind : {"map"},
     phase : {NilV, Str("Completed"), OtherV},
     completionTimestamp : {NilV, Str("T2"), OtherV},
     startTimestamp : {NilV, Str("T1"), OtherV}]
Statuses == {NoStatus, NotAMapStatus} \cup MapStatuses

\* obj.GetLabels(): a Go map, here a set of <<key, value>> with unique keys.
LabelMaps ==
    {m \in SUBSET (LabelKeys \X LabelValues) :
        \A p, q \in m : p[1] = q[1] => p = q}

\* The object Get returns for (ns, name): its metadata is the requested one.
Objects(ns, name) ==
    [Namespace : {ns}, Name : {name}, Labels : LabelMaps, status : Statuses]
NoObj == [Namespace |-> "", Name |-> "", Labels |-> {}, status |-> NoStatus]

\* utils.BackupJobInfo{}
EmptyBackupJobInfo ==
    [Namespace |-> "", Name |-> "", Phase |-> "", CompletionTime |-> "",
     StartTime |-> "", Labels |-> << >>]

\* Orders in which Go may range over a map with entries m.
Orders(m) ==
    {s \in [1..Cardinality(m) -> m] :
        \A i, j \in 1..Cardinality(m) : i # j => s[i] # s[j]}

VARIABLES pc, f, args, o, completeErr, r, err, infos, idx, table, allErrs,
          errs, getErr, gets, obj, backupJobInfo, out, errOut, retErr,
          panicked

vars == <<pc, f, args, o, completeErr, r, err, infos, idx, table, allErrs,
          errs, getErr, gets, obj, backupJobInfo, out, errOut, retErr,
          panicked>>

\* ------------------------------------------------------------- Complete
\* The cmdutil.Factory handed to NewListCmd, by what its calls answer:
\* ToRawKubeConfigLoader().Namespace(), ToRESTConfig() and
\* dynamic.NewForConfig on that configuration.
Factories ==
    {[nsErr |-> Nil, Namespace |-> n, EnforceNamespace |-> e,
      restErr |-> re, dynErr |-> de] :
        n \in ConfigNamespaces, e \in BOOLEAN,
        re \in {Nil, Error("rest config")},
        de \in {Nil, Error("dynamic client")}}
    \cup
    {[nsErr |-> Error("namespace"), Namespace |-> "",
      EnforceNamespace |-> FALSE, restErr |-> Nil, dynErr |-> Nil]}

\* ListOptions as NewListCmd builds it; AllNamespaces is a field a caller
\* may set before Complete.
NewListOptions(all) ==
    [Namespace |-> "", EnforceNamespace |-> FALSE, AllNamespaces |-> all,
     BuilderArgs |-> << >>, Describer |-> FALSE, client |-> FALSE,
     NewBuilder |-> FALSE]

\* Complete's effect on the options and its return value.
CompleteResult(opts, fac, a) ==
    LET o1 == [opts EXCEPT !.Namespace = fac.Namespace,
                           !.EnforceNamespace = fac.EnforceNamespace]
        o2 == [o1 EXCEPT
                 !.EnforceNamespace =
                     IF o1.AllNamespaces THEN FALSE ELSE o1.EnforceNamespace,
                 !.BuilderArgs = <<BackupJobSourceName>> \o a,
                 !.Describer = TRUE]
        o3 == [o2 EXCEPT !.client = TRUE, !.NewBuilder = TRUE]
    IN  IF fac.nsErr # Nil THEN [o |-> o1, ret |-> fac.nsErr]
        ELSE IF fac.restErr # Nil THEN [o |-> o2, ret |-> Nil]
        ELSE IF fac.dynErr # Nil THEN [o |-> o2, ret |-> fac.dynErr]
        ELSE [o |-> o3, ret |-> Nil]

Init ==
    /\ pc = "start"
    /\ f \in Factories
    /\ args \in ArgLists
    /\ o \in {NewListOptions(all) : all \in BOOLEAN}
    /\ completeErr = Nil
    /\ r = [err |-> Nil, infos |-> << >>, infosErr |-> Nil]
    /\ err = Nil
    /\ infos = << >>
    /\ idx = 0
    /\ table = << >>
    /\ allErrs = << >>
    /\ errs = {}
    /\ getErr = Nil
    /\ gets = << >>
    /\ obj = NoObj
    /\ backupJobInfo = EmptyBackupJobInfo
    /\ out = << >>
    /\ errOut = << >>
    /\ retErr = Nil
    /\ panicked = ""

\* cmdutil.CheckErr(o.Complete(f, args)): a non-nil error ends the process,
\* otherwise Run is called next.
Complete ==
    /\ pc = "start"
    /\ LET res == CompleteResult(o, f, args)
       IN  /\ o' = res.o
           /\ completeErr' = res.ret
           /\ pc' = IF res.ret # Nil THEN "fatal" ELSE "run"
    /\ UNCHANGED <<f, args, r, err, infos, idx, table, allErrs, errs, getErr,
                   gets, obj, backupJobInfo, out, errOut, retErr, panicked>>

\* ------------------------------------------------------------- Run: query
\* resource.Info as the builder returns it: the reference's namespace and
\* name and its REST mapping.
Infos(opts) ==
    [Namespace : IF opts.AllNamespaces THEN Namespaces ELSE {opts.Namespace},
     Name : IF Len(opts.BuilderArgs) > 1
            THEN {opts.BuilderArgs[i] : i \in 2..Len(opts.BuilderArgs)}
            ELSE Names,
     Mapping : {[Resource |-> opts.BuilderArgs[1]]}]

\* Lists of distinct references, at most MaxInfos long.
InfoLists(opts) ==
    UNION {{s \in [1..n -> Infos(opts)] :
               \A i, j \in 1..n : i # j => s[i] # s[j]} : n \in 0..MaxInfos}

\* What the builder's Do() can answer: r.Err(), and r.Infos() with its error.
QueryResults(opts) ==
    {[err |-> Error("query"), infos |-> << >>, infosErr |-> Nil]}
    \cup
    [err : {Nil}, infos : InfoLists(opts),
     infosErr : {Nil, Error("infos")}]

\* Variant of QueryFailed that forgets the error r.Infos() returns.
QueryFailedIgnoringInfosErr(res) == res.err # Nil

\* The two checks of the query's outcome that make Run return early.
QueryFailed(res) == res.err # Nil \/ res.infosErr # Nil
QueryErr(res) == IF res.err # Nil THEN res.err ELSE res.infosErr

HeaderRow == <<"NAMESPACE", "NAME", "PHASE", "COMPLETION_TIME", "CREATE_TIME">>

RunQuery ==
    /\ pc = "run"
    /\ IF ~o.NewBuilder
       THEN \* o.NewBuilder is a nil func: calling it panics
            /\ pc' = "panic"
            /\ panicked' = "nil pointer dereference"
            /\ UNCHANGED <<r, err, infos, table, allErrs, errs, retErr>>
       ELSE \E res \in QueryResults(o) :
            /\ r' = res
            /\ err' = QueryErr(res)
            /\ panicked' = panicked
            /\ IF QueryFailed(res)
               THEN /\ pc' = "returned"
                    /\ retErr' = QueryErr(res)
                    /\ UNCHANGED <<infos, table, allErrs, errs>>
               ELSE /\ pc' = "loop"
                    /\ infos' = res.infos
                    /\ table' = <<HeaderRow>>
                    /\ allErrs' = << >>
                    /\ errs' = {}
                    /\ retErr' = retErr
    /\ UNCHANGED <<f, args, o, completeErr, idx, getErr, gets, obj,
                   backupJobInfo, out, errOut>>

\* ------------------------------------------------------------- projection
\* Variant of LabelEntry with the format "%s:%s", the separator left out.
LabelEntryNoSeparator(k, v) == k \o <<":">> \o v

\* fmt.Sprintf("%s:%s ", k, v)
LabelEntry(k, v) == k \o <<":">> \o v \o <<" ">>

\* info.Labels after ranging over the labels in the given order.
RECURSIVE LabelString(_, _)
LabelString(order, acc) ==
    IF order = << >> THEN acc
    ELSE LabelString(Tail(order),
                     acc \o LabelEntry(Head(order)[1], Head(order)[2]))

\* Variant of TypeAssertOK for the two-valued form v, _ := x.(T), which
\* never panics.
TypeAssertCommaOk(x, kind) == TRUE

\* Whether the type assertion x.(T) succeeds; it panics otherwise.
TypeAssertOK(x, kind) == x.kind = kind

\* Variant of StartTimestampKey that reads the completion time again.
StartTimestampKeyCopied == "completionTimestamp"

PhaseKey == "phase"
CompletionTimestampKey == "completionTimestamp"
StartTimestampKey == "startTimestamp"

\* if status[key] != nil { field = status[key].(string) }
ReadField(status, key, cur) ==
    IF status[key] = NilV THEN [panic |-> FALSE, v |-> cur]
    ELSE IF ~TypeAssertOK(status[key], "string") THEN [panic |-> TRUE, v |-> cur]
    ELSE [panic |-> FALSE, v |-> status[key].v]

\* buildBackupJobInfo(obj, info) with the order Go ranges over the labels:
\* whether it panics, and *info when it returns or panics.
buildBackupJobInfo(ob, info, order) ==
    LET i1 == [info EXCEPT !.Labels = LabelString(order, info.Labels)]
        st == ob.status
    IN  IF st.kind = "nil" THEN [panic |-> FALSE, info |-> i1]
        ELSE IF ~TypeAssertOK(st, "map") THEN [panic |-> TRUE, info |-> i1]
        ELSE
          LET i2 == [i1 EXCEPT !.Name = ob.Name, !.Namespace = ob.Namespace]
              ph == ReadField(st, PhaseKey, i2.Phase)
              i3 == [i2 EXCEPT !.Phase = ph.v]
              ct == ReadField(st, CompletionTimestampKey, i3.CompletionTime)
              i4 == [i3 EXCEPT !.CompletionTime = ct.v]
              sta == ReadField(st, StartTimestampKey, i4.StartTime)
              i5 == [i4 EXCEPT !.StartTime = sta.v]
          IN  IF ph.panic THEN [panic |-> TRUE, info |-> i2]
              ELSE IF ct.panic THEN [panic |-> TRUE, info |-> i3]
              ELSE IF sta.panic THEN [panic |-> TRUE, info |-> i4]
              ELSE [panic |-> FALSE, info |-> i5]

\* ------------------------------------------------------------- Run: loop
\* Variant of MappingCheckErr that tests an error of the object at hand,
\* here a missing mapping for the objects named "b".
MappingCheckErrPerItem(outerErr, info) ==
    IF info.Name = "b" THEN Error("no mapping") ELSE outerErr

\* The error value tested right after info.ResourceMapping(): Run's own
\* err, last assigned by r.Infos(); the loop's obj, err := ... declares a
\* new err in the loop body.
MappingCheckErr(outerErr, info) == outerErr

\* The namespace and name of the per-object Get.
GetRequest(opts, info) ==
    [Resource |-> info.Mapping.Resource, Namespace |-> opts.Namespace,
     Name |-> info.Name]

\* What the dynamic client's Get can answer for a request.
GetResults(req) ==
    [err : {Error("not found"), Error("forbidden")}, obj : {NoObj}]
    \cup
    [err : {Nil}, obj : Objects(req.Namespace, req.Name)]

\* Variant of ReturnOnGetErr: return nil.
ReturnNilOnGetErr(e) == Nil

\* return err, on a failed Get
ReturnOnGetErr(e) == e

TableRow(info) ==
    <<info.Namespace, info.Name, info.Phase, info.CompletionTime,
      info.StartTime>>

RunLoop ==
    /\ pc = "loop"
    /\ idx < Len(infos)
    /\ LET info == infos[idx + 1]
           mapErr == MappingCheckErr(err, info)
           req == GetRequest(o, info)
           fresh == [EmptyBackupJobInfo EXCEPT !.Namespace = info.Namespace,
                                               !.Name = info.Name]
       IN  IF mapErr # Nil
           THEN /\ allErrs' = IF mapErr \in errs THEN allErrs
                              ELSE Append(allErrs, mapErr)
                /\ errs' = errs \cup {mapErr}
                /\ backupJobInfo' = EmptyBackupJobInfo
                /\ idx' = idx + 1
                /\ UNCHANGED <<pc, table, getErr, gets, obj, retErr, panicked>>
           ELSE IF ~o.client
           THEN /\ pc' = "panic"
                /\ panicked' = "nil pointer dereference"
                /\ backupJobInfo' = fresh
                /\ UNCHANGED <<idx, table, allErrs, errs, getErr, gets, obj,
                               retErr>>
           ELSE \E res \in GetResults(req) : \E order \in Orders(res.obj.Labels) :
                /\ gets' = Append(gets, req)
                /\ getErr' = res.err
                /\ obj' = res.obj
                /\ UNCHANGED <<allErrs, errs>>
                /\ IF res.err # Nil
                   THEN /\ pc' = "returned"
                        /\ retErr' = ReturnOnGetErr(res.err)
                        /\ backupJobInfo' = fresh
                        /\ idx' = idx + 1
                        /\ UNCHANGED <<table, panicked>>
                   ELSE LET b == buildBackupJobInfo(res.obj, fresh, order)
                        IN  /\ backupJobInfo' = b.info
                            /\ idx' = idx + 1
                            /\ retErr' = retErr
                            /\ IF b.panic
                               THEN /\ pc' = "panic"
                                    /\ panicked' = "interface conversion"
                                    /\ table' = table
                               ELSE /\ pc' = pc
                                    /\ panicked' = panicked
                                    /\ table' = Append(table, TableRow(b.info))
    /\ UNCHANGED <<f, args, o, completeErr, r, err, infos, out, errOut>>

\* ------------------------------------------------------------- Run: render
\* output.EncodeTable(w, table): the table's rows, one line each.
EncodeTable(w, t) == w \o t

\* Variant of NoResourcesFound that forgets to look at the matched objects.
NoResourcesFoundNoErrors(is, es) == Len(es) = 0

\* len(infos) == 0 && len(allErrs) == 0
NoResourcesFound(is, es) == Len(is) = 0 /\ Len(es) = 0

\* The line printed for an empty result.
NoResourcesLine(opts) ==
    IF opts.AllNamespaces
    THEN <<"No resources found", "\n">>
    ELSE <<"No resources found in ", opts.Namespace, " namespace.", "\n">>

\* utilerrors.NewAggregate: nil for an empty list, else all the messages.
RECURSIVE NewAggregate(_)
NewAggregate(list) ==
    IF list = << >> THEN Nil ELSE Head(list) \o NewAggregate(Tail(list))

RunRender ==
    /\ pc = "loop"
    /\ idx = Len(infos)
    /\ out' = EncodeTable(out, table)
    /\ errOut' = IF NoResourcesFound(infos, allErrs)
                 THEN Append(errOut, NoResourcesLine(o))
                 ELSE errOut
    /\ retErr' = NewAggregate(allErrs)
    /\ pc' = "returned"
    /\ UNCHANGED <<f, args, o, completeErr, r, err, infos, idx, table, allErrs,
                   errs, getErr, gets, obj, backupJobInfo, panicked>>

Next == Complete \/ RunQuery \/ RunLoop \/ RunRender

Spec == Init /\ [][Next]_vars

\* ============================================================= properties
\* Run got past the query: the builder reported no error.
QueryOk == pc \in {"loop", "returned", "panic"} /\ r.err = Nil /\ r.infosErr = Nil

\* The latest loop iteration issued its Get and received an object (obj);
\* backupJobInfo is what buildBackupJobInfo made of it.
Fetched == QueryOk /\ idx > 0 /\ Len(gets) = idx /\ getErr = Nil

\* Run returned after rendering the table.
Rendered == QueryOk /\ pc = "returned" /\ getErr = Nil

\* The text a status field shows: its string, or nothing when it is nil.
FieldText(x) == IF x.kind = "string" THEN x.v ELSE ""

WellFormed(st) ==
    /\ st.kind \in {"nil", "map"}
    /\ st.phase.kind # "other"
    /\ st.completionTimestamp.kind # "other"
    /\ st.startTimestamp.kind # "other"

\* The label string cut at every space.
RECURSIVE Split(_, _)
Split(str, cur) ==
    IF str = << >> THEN <<cur>>
    ELSE IF Head(str) = " " THEN <<cur>> \o Split(Tail(str), << >>)
    ELSE Split(Tail(str), Append(cur, Head(str)))

PairTexts(m) == {p[1] \o <<":">> \o p[2] : p \in m}

\* toks lists every key:value pair of m exactly once and nothing else.
ListsPairs(toks, m) ==
    /\ Len(toks) = Cardinality(m)
    /\ {toks[i] : i \in 1..Len(toks)} = PairTexts(m)

\* C1 -- when the query returns N references and every re-fetch succeeds,
\* N rows follow the header in the order of the references, and row i is
\* made of the object that reference i names: the Get of iteration i asks
\* for the reference's own namespace and name, and the row carries that
\* namespace and name and the fetched object's phase and times.
C1_RowsAreTheMatchedObjects ==
    /\ Fetched /\ pc # "panic" =>
         /\ gets[idx].Namespace = infos[idx].Namespace
         /\ gets[idx].Name = infos[idx].Name
         /\ table[idx + 1] =
              <<infos[idx].Namespace, infos[idx].Name,
                FieldText(obj.status.phase),
                FieldText(obj.status.completionTimestamp),
                FieldText(obj.status.startTimestamp)>>
    /\ Rendered =>
         /\ Len(table) = Len(infos) + 1
         /\ out = table
         /\ \A i \in 1..Len(infos) :
              /\ gets[i].Namespace = infos[i].Namespace
              /\ gets[i].Name = infos[i].Name
              /\ table[i + 1][1] = infos[i].Namespace
              /\ table[i + 1][2] = infos[i].Name

\* C2 -- a successful query with no matched object renders only the header
\* row, writes exactly one line to the error stream ("No resources found",
\* or "No resources found in <Namespace> namespace.") and Run returns
\* success; with at least one matched object no line is ever written.
C2_EmptyResultMessage ==
    /\ Rendered /\ Len(infos) = 0 =>
         /\ out = <<HeaderRow>>
         /\ retErr = Nil
         /\ errOut =
              IF o.AllNamespaces
              THEN << <<"No resources found", "\n">> >>
              ELSE << <<"No resources found in ", o.Namespace,
                        " namespace.", "\n">> >>
    /\ Len(infos) > 0 => errOut = << >>

C2_Witness ==
    /\ Rendered /\ Len(infos) = 0 /\ ~o.AllNamespaces
    /\ Len(errOut) = 1 /\ errOut[1][2] = "ns1"

\* C3 -- when the re-fetch of object k fails Run returns exactly that
\* error at once: k Gets were issued and no further one can be, the k-1
\* rows built so far and the header are written nowhere, and nothing goes
\* to the error stream.
C3_FetchFailureAborts ==
    getErr # Nil =>
        /\ pc = "returned"
        /\ retErr = getErr
        /\ Len(gets) = idx
        /\ gets[idx].Name = infos[idx].Name
        /\ Len(table) = idx
        /\ out = << >>
        /\ errOut = << >>
        /\ ~ENABLED RunLoop
        /\ ~ENABLED RunRender

C3_Witness ==
    /\ getErr = Error("forbidden") /\ idx = 2 /\ Len(infos) = 2
    /\ Len(table) = 2 /\ pc = "returned"

\* C4 -- Complete returns an error when namespace resolution fails, when
\* the REST configuration cannot be obtained or when the dynamic client
\* cannot be built; whenever it returns success the client and NewBuilder
\* are both set.
C4_CompleteFailsOrIsReady ==
    pc # "start" =>
        /\ (f.nsErr # Nil \/ f.restErr # Nil \/ f.dynErr # Nil)
              => completeErr # Nil
        /\ completeErr = Nil => o.client /\ o.NewBuilder

\* C5 -- when the query fails (the builder's result reports an error, or
\* the references cannot be retrieved) Run returns that error at once: no
\* Get is issued, no table is built or written, and no line goes to the
\* error stream.
C5_QueryFailureAborts ==
    (r.err # Nil \/ r.infosErr # Nil) =>
        /\ pc = "returned"
        /\ retErr = (IF r.err # Nil THEN r.err ELSE r.infosErr)
        /\ idx = 0
        /\ gets = << >>
        /\ table = << >>
        /\ out = << >>
        /\ errOut = << >>

C5_Witness ==
    /\ pc = "returned" /\ r.infosErr = Error("infos") /\ Len(r.infos) = 2
    /\ retErr = Error("infos")

\* C6 -- the error tested inside the loop is the query's, nil by then: no
\* iteration is skipped, the error list and the set of seen messages stay
\* empty, and Run returns success whenever it gets past the loop, whatever
\* the number of rows.
C6_SkipBranchIsDead ==
    /\ pc = "loop" => err = Nil
    /\ allErrs = << >>
    /\ errs = {}
    /\ QueryOk => Len(gets) = idx
    /\ Rendered => retErr = Nil /\ Len(out) = Len(infos) + 1

C6_Witness ==
    /\ Rendered /\ Len(infos) = 2 /\ Len(out) = 3 /\ retErr = Nil
    /\ infos[2].Name = "b"

\* C7 -- for a fetched object with no status the projection leaves Phase,
\* CompletionTime and StartTime empty, Name and Namespace are non-empty
\* and are the object's, and Labels is built from the object's labels.
C7_NoStatusProjection ==
    Fetched /\ obj.status.kind = "nil" =>
        /\ backupJobInfo.Phase = ""
        /\ backupJobInfo.CompletionTime = ""
        /\ backupJobInfo.StartTime = ""
        /\ backupJobInfo.Name # "" /\ backupJobInfo.Namespace # ""
        /\ backupJobInfo.Name = obj.Name
        /\ backupJobInfo.Namespace = obj.Namespace
        /\ (backupJobInfo.Labels = << >>) = (obj.Labels = {})

\* C8 -- for an object whose status is a mapping with string or absent
\* fields, Phase, CompletionTime and StartTime are each the string at
\* status.phase, status.completionTimestamp and status.startTimestamp, or
\* empty when that key is absent, independently of the other two; the row
\* shows them in columns 3 to 5, CREATE_TIME being status.startTimestamp.
C8_StatusFieldsIndependent ==
    Fetched /\ obj.status.kind = "map" /\ WellFormed(obj.status) =>
        /\ pc # "panic"
        /\ backupJobInfo.Phase = FieldText(obj.status.phase)
        /\ backupJobInfo.CompletionTime =
              FieldText(obj.status.completionTimestamp)
        /\ backupJobInfo.StartTime = FieldText(obj.status.startTimestamp)
        /\ table[idx + 1][3] = FieldText(obj.status.phase)
        /\ table[idx + 1][4] = FieldText(obj.status.completionTimestamp)
        /\ table[idx + 1][5] = FieldText(obj.status.startTimestamp)

C8_Witness ==
    /\ Fetched /\ obj.status.kind = "map"
    /\ obj.status.phase = Str("Completed")
    /\ obj.status.completionTimestamp = NilV
    /\ obj.status.startTimestamp = NilV
    /\ TableRow(backupJobInfo) = <<obj.Namespace, obj.Name, "Completed", "", "">>

\* C9 (as stated) -- the label string holds every key:value pair exactly
\* once and nothing else, the pairs separated by a single space; an empty
\* mapping gives the empty string.
C9_PairsSeparatedBySpace ==
    Fetched =>
        IF obj.Labels = {} THEN backupJobInfo.Labels = << >>
        ELSE ListsPairs(Split(backupJobInfo.Labels, << >>), obj.Labels)

\* C9 (amended) -- the label string holds every key:value pair exactly
\* once, in some order, each pair followed by a single space, the last one
\* included, and nothing else; an empty mapping gives the empty string.
C9_PairsEachFollowedBySpace ==
    Fetched =>
        IF obj.Labels = {} THEN backupJobInfo.Labels = << >>
        ELSE LET toks == Split(backupJobInfo.Labels, << >>)
             IN  /\ toks[Len(toks)] = << >>
                 /\ ListsPairs(SubSeq(toks, 1, Len(toks) - 1), obj.Labels)

C9_Witness ==
    /\ Fetched /\ Cardinality(obj.Labels) = 2
    /\ SubSeq(backupJobInfo.Labels, 1, 4) = <<"a", "p", "p", ":">>

\* C10 -- a fetched object whose status is not a mapping, or whose phase,
\* completionTimestamp or startTimestamp is not a string, stops the run
\* with a type-assertion panic: Run returns no error value, the object is
\* neither skipped nor given a row, and no table is written.
C10_MalformedStatusPanics ==
    Fetched /\ ~WellFormed(obj.status) =>
        /\ pc = "panic"
        /\ panicked = "interface conversion"
        /\ retErr = Nil
        /\ allErrs = << >>
        /\ Len(table) = idx
        /\ out = << >>
        /\ errOut = << >>
        /\ ~ENABLED Next

C10_Witness ==
    /\ Fetched /\ idx = 2 /\ pc = "panic"
    /\ obj.status.kind = "map"
    /\ obj.status.phase = Str("Completed")
    /\ obj.status.startTimestamp = OtherV
    /\ Len(table) = 2
====
